---------------------------- MODULE Spec2Model ----------------------------
(***************************************************************************)
(* LemonVRCT: push-to-talk capture, transcription, refinement, translation  *)
(* fan-out and OSC dispatch (src/vrchat_translator.py, VRChatTranslator).   *)
(*                                                                         *)
(* Threads of the program and their steps in this model:                    *)
(*   - the pynput listener thread runs on_press / on_release, one event at  *)
(*     a time (OnPress, OnRelease);                                         *)
(*   - every successful start_recording spawns a record_audio thread        *)
(*     (CaptureRead, CaptureAppend, CaptureExit);                           *)
(*   - one process_translation_queue thread (Worker* actions), cut at       *)
(*     every point where it reads or writes state shared with the listener  *)
(*     (queue.get, is_translating) and at every call of an external         *)
(*     service (Whisper, the chat-completion service, the OSC client);      *)
(*   - main()'s finally block runs cleanup (Cleanup).                       *)
(*                                                                         *)
(* Texts are sequences of one-character strings, so that strip(), len()     *)
(* and "\n".join() are computed and not assumed.                            *)
(***************************************************************************)
EXTENDS Integers, Sequences, FiniteSets, TLC

(***************************************************************************)
(* Bounds of the model.                                                     *)
(***************************************************************************)
\* recordings (start_recording succeeding) in one run of Spec
MaxRec == 2
\* recordings in one run of SpecJob
JobRecs == 1
\* frames one capture buffer may hold
MaxFrames == 2
\* the counter of trigger presses since the last release saturates here
MaxStreak == 2
\* longest text handed to semantic_correction in a run of SpecText
MaxText == 2

(***************************************************************************)
(* Configuration read once in __init__ (lines 40-72).  The sample rate and  *)
(* the chunk size are scaled down: with RATE = 4 and CHUNK = 1 one frame    *)
(* lasts 0.25 s, two frames 0.5 s.                                          *)
(***************************************************************************)
Rates == {4}
ChunkSizes == {1}
ChannelCounts == {1, 2}
Langs == {"en", "ja"}

\* TARGET_LANGUAGES.split(","): a non-empty list; the lists modelled name
\* each language once (the settings editor writes one entry per language).
TargetLists ==
  {s \in UNION {[1..n -> Langs] : n \in 1..Cardinality(Langs)} :
      \A a, b \in DOMAIN s : a # b => s[a] # s[b]}

Configs ==
  [RATE : Rates, CHUNK : ChunkSizes, CHANNELS : ChannelCounts,
   target_languages : TargetLists]

hotkey_char == "k"

(***************************************************************************)
(* Key events delivered by pynput: a character key carries .char, a special *)
(* key (Key.shift, ...) has no .char attribute.                             *)
(***************************************************************************)
Keys ==
  {[hasChar |-> TRUE, char |-> "k"], [hasChar |-> TRUE, char |-> "K"],
   [hasChar |-> TRUE, char |-> "j"], [hasChar |-> FALSE, char |-> ""],
   [hasChar |-> TRUE, char |-> ""]}

\* str.lower() on the characters of Keys
Lower(c) == IF c = "K" THEN "k" ELSE IF c = "J" THEN "j" ELSE c

\* a comparison that keeps the case of the character
IsHotkeyExact(key) == key.hasChar /\ key.char # "" /\ key.char = hotkey_char

\* hasattr(key, 'char') and key.char and key.char.lower() == self.hotkey_char
IsHotkey(key) == key.hasChar /\ key.char # "" /\ Lower(key.char) = hotkey_char

(***************************************************************************)
(* Text helpers.                                                            *)
(***************************************************************************)
RECURSIVE LStrip(_)
LStrip(s) == IF s # <<>> /\ Head(s) = " " THEN LStrip(Tail(s)) ELSE s

RECURSIVE RStrip(_)
RStrip(s) ==
  IF s # <<>> /\ s[Len(s)] = " " THEN RStrip(SubSeq(s, 1, Len(s) - 1)) ELSE s

\* str.strip()
Strip(s) == RStrip(LStrip(s))

\* "\n".join(lines)
RECURSIVE Join(_)
Join(lines) ==
  IF lines = <<>> THEN <<>>
  ELSE IF Len(lines) = 1 THEN lines[1]
  ELSE lines[1] \o <<"\n">> \o Join(Tail(lines))

(***************************************************************************)
(* What the external services may answer.  A call either raises (ok =       *)
(* FALSE) or returns a content.                                             *)
(***************************************************************************)
Raised == [ok |-> FALSE, content |-> <<>>]
Returned(c) == [ok |-> TRUE, content |-> c]

VARIABLES
  scope,           \* what this run explores: [recs, full, devices, overlap,
                   \* texts]
  cfg,             \* the configuration of this run
  phase,           \* "init" | "aborted" (SpecBoot) | "running" |
                   \* "stopped" (cleanup has run) | "exited"
  is_recording, hotkey_pressed, is_translating,
  audio_data,      \* self.audio_data: the frames of the capture buffer
  stream,          \* self.stream: [gen, open]; gen 0 is None
  threads,         \* record_audio threads: [pc, held] per recording
  nrec,            \* successful start_recording calls so far
  translation_queue,
  w,               \* the worker: [pc, job, text, i, translations]
  terminated,      \* self.audio.terminate() was called
  \* history variables
  enq,             \* ids of the sessions put on the queue, in put order
  outcome,         \* per session id: how far it got
  calls,           \* service calls of the job the worker holds (or held last)
  sent,            \* datagrams handed to the OSC client by that job
  streak,          \* trigger presses since the last trigger release
  lastRel          \* what the trigger release did, until the next press

vars ==
  <<scope, cfg, phase, is_recording, hotkey_pressed, is_translating, audio_data,
    stream, threads, nrec, translation_queue, w, terminated, enq, outcome,
    calls, sent, streak, lastRel>>

listenerVars == <<is_recording, hotkey_pressed, audio_data, stream, nrec>>
workerVars == <<is_translating, w, outcome, calls, sent>>
keyHist == <<streak, lastRel>>

Recs == 1..(IF MaxRec > JobRecs THEN MaxRec ELSE JobRecs)

\* the shutdown sentinel (None) put by cleanup
Sentinel == [id |-> 0, frames |-> <<>>]
NoJob == [id |-> 0, frames |-> <<>>]

\* the worker blocked in queue.get, with no job
Idling == [pc |-> "wait", job |-> NoJob, text |-> <<>>, i |-> 0,
           translations |-> <<>>]

\* streak follows the trigger presses since the last trigger release when
\* the first of them found the program idle (idle0): presses counts them,
\* starts the recordings they started, failed those on which audio.open
\* raised.  Presses that began while the program was busy are not followed.
NoStreak == [presses |-> 0, starts |-> 0, failed |-> 0, idle0 |-> FALSE]

\* lastRel tells what a trigger release did that ended two or more presses
\* begun from idle, until the next trigger press; NoRelease otherwise
NoRelease ==
  [repeated |-> FALSE, recording |-> FALSE, frames |-> FALSE,
   closed |-> FALSE, puts |-> 0]

\* model.transcribe(...)["text"]
SttAnswers ==
  IF scope.full
  THEN {Raised} \cup
       {Returned(c) : c \in {<<" ">>, <<"a">>, <<" ", "a", "b">>}}
  ELSE {Raised, Returned(<<"a", "b">>)}

\* the correction request's message content
RefineAnswers ==
  IF scope.full \/ scope.texts
  THEN {Raised} \cup
       {Returned(c) : c \in {<<" ">>, <<"a", "b">>, <<"c", "d", " ">>}}
  ELSE {Returned(<<"a", "b">>)}

\* a translation request's message content: the text in the language asked
\* for (E for "en", J for "ja"), a blank text, or an exception
InLang(lang) == IF lang = "en" THEN <<"E", " ">> ELSE <<"J">>

TranslateAnswers(lang) ==
  IF scope.full
  THEN {Raised, Returned(<<" ">>), Returned(InLang(lang))}
  ELSE {Returned(InLang(lang))}

\* osc_client.send_message either returns or raises
SendAnswers == IF scope.full THEN {TRUE, FALSE} ELSE {TRUE}

\* self.audio.open, stream.stop_stream/close and stream.read on an open
\* stream either return or raise
DeviceAnswers == IF scope.devices THEN {TRUE, FALSE} ELSE {TRUE}

InitWith(sc, configs) ==
  /\ scope = sc
  /\ cfg \in configs
  /\ phase = "running"
  /\ is_recording = FALSE
  /\ hotkey_pressed = FALSE
  /\ is_translating = FALSE
  /\ audio_data = <<>>
  /\ stream = [gen |-> 0, open |-> FALSE]
  /\ threads = [t \in Recs |-> [pc |-> "unborn", held |-> 0]]
  /\ nrec = 0
  /\ translation_queue = <<>>
  /\ w = [pc |-> "wait", job |-> NoJob, text |-> <<>>, i |-> 0,
          translations |-> <<>>]
  /\ terminated = FALSE
  /\ enq = <<>>
  /\ outcome = [s \in Recs |-> "none"]
  /\ calls = <<>>
  /\ sent = <<>>
  /\ streak = NoStreak
  /\ lastRel = NoRelease

\* several recordings, every interleaving of the threads, one configuration
\* and one successful and one failing path through a job
Init ==
  InitWith([recs |-> MaxRec, full |-> FALSE, devices |-> FALSE,
            overlap |-> TRUE, texts |-> FALSE],
           {c \in Configs : c.CHANNELS = 1 /\ c.target_languages = <<"en">>})

\* every configuration and every answer of every service and device, for
\* jobs one after the other: the trigger is pressed only while nothing is
\* queued or in the worker's hands
InitJob ==
  InitWith([recs |-> JobRecs, full |-> TRUE, devices |-> TRUE,
            overlap |-> FALSE, texts |-> FALSE], Configs)

\* what __init__ may find: whether an input device can be selected, the
\* Whisper model loads, DEEPSEEK_API_KEY is set and the OSC client is made
Environments ==
  [device : BOOLEAN, model : BOOLEAN, key : BOOLEAN, osc : BOOLEAN]

\* before __init__ has run its setup calls: no worker thread yet.  After a
\* successful construction one recording is followed through.
InitBoot ==
  /\ \E env \in Environments :
       scope = [recs |-> JobRecs, full |-> FALSE, devices |-> FALSE,
                overlap |-> TRUE, texts |-> FALSE, env |-> env]
  /\ cfg \in {c \in Configs :
                c.CHANNELS = 1 /\ c.target_languages = <<"en">>}
  /\ phase = "init"
  /\ is_recording = FALSE
  /\ hotkey_pressed = FALSE
  /\ is_translating = FALSE
  /\ audio_data = <<>>
  /\ stream = [gen |-> 0, open |-> FALSE]
  /\ threads = [t \in Recs |-> [pc |-> "unborn", held |-> 0]]
  /\ nrec = 0
  /\ translation_queue = <<>>
  /\ w = [Idling EXCEPT !.pc = "unborn"]
  /\ terminated = FALSE
  /\ enq = <<>>
  /\ outcome = [s \in Recs |-> "none"]
  /\ calls = <<>>
  /\ sent = <<>>
  /\ streak = NoStreak
  /\ lastRel = NoRelease

\* the texts semantic_correction, translate_text, format_output and
\* send_to_vrchat are applied to in SpecText
Texts == UNION {[1..n -> {" ", "a", "b"}] : n \in 0..MaxText}

\* the entry of the call log that holds the text a run of SpecText starts from
Input(text) ==
  [kind |-> "input", lang |-> "", text |-> text, state |-> "returned",
   content |-> text]

\* the state in which a first session has been recorded and enqueued and is
\* in the worker's hands: its input stream is closed and its record_audio
\* thread has ended
InitTaken(sc, worker, log) ==
  /\ scope = sc
  /\ cfg \in {c \in Configs :
                c.CHANNELS = 1 /\ c.target_languages = <<"en">>}
  /\ phase = "running"
  /\ is_recording = FALSE
  /\ hotkey_pressed = FALSE
  /\ is_translating = (worker.pc # "got")
  /\ audio_data = <<>>
  /\ stream = [gen |-> 1, open |-> FALSE]
  /\ threads = [t \in Recs |->
                  IF t = 1 THEN [pc |-> "dead", held |-> 0]
                  ELSE [pc |-> "unborn", held |-> 0]]
  /\ nrec = 1
  /\ translation_queue = <<>>
  /\ w = worker
  /\ terminated = FALSE
  /\ enq = <<1>>
  /\ outcome = [s \in Recs |-> IF s = 1 THEN "taken" ELSE "none"]
  /\ calls = log
  /\ sent = <<>>
  /\ streak = NoStreak
  /\ lastRel = NoRelease

\* every answer of every service, for a first session of any length that
\* the worker has just taken from the queue and for the sessions recorded
\* after it, one after the other
InitLive ==
  \E frames \in UNION {[1..n -> {1}] : n \in 1..MaxFrames} :
    InitTaken([recs |-> JobRecs + 1, full |-> TRUE, devices |-> FALSE,
               overlap |-> FALSE, texts |-> FALSE],
              [Idling EXCEPT !.pc = "got",
                             !.job = [id |-> 1, frames |-> frames]],
              <<>>)

\* the worker is about to call semantic_correction on an arbitrary text, for
\* a first session that is in its hands; further sessions are recorded and
\* go through the whole pipeline
InitText ==
  \E text \in Texts :
    InitTaken([recs |-> MaxRec, full |-> FALSE, devices |-> FALSE,
               overlap |-> FALSE, texts |-> TRUE],
              [Idling EXCEPT !.pc = "correct",
                             !.job = [id |-> 1, frames |-> <<1, 1>>],
                             !.text = text],
              <<Input(text)>>)

(***************************************************************************)
(* __init__ from setup_audio on (lines 82-88) and main(): every setup call  *)
(* re-raises its exception, so the first one that fails ends __init__       *)
(* before start_translation_worker; main() then prints the error, and with  *)
(* translator still None it neither runs the listener nor calls cleanup.    *)
(***************************************************************************)
\* a construction that goes on without DEEPSEEK_API_KEY
ConstructWithoutKey ==
  /\ phase = "init"
  /\ IF scope.env.device /\ scope.env.model /\ scope.env.osc
     THEN phase' = "running" /\ w' = Idling
     ELSE phase' = "aborted" /\ UNCHANGED w
  /\ UNCHANGED <<scope, cfg, listenerVars, threads, translation_queue,
                 terminated, enq, is_translating, outcome, calls, sent,
                 keyHist>>

Construct ==
  /\ phase = "init"
  /\ IF scope.env.device /\ scope.env.model /\ scope.env.key /\ scope.env.osc
     THEN phase' = "running" /\ w' = Idling
     ELSE phase' = "aborted" /\ UNCHANGED w
  /\ UNCHANGED <<scope, cfg, listenerVars, threads, translation_queue,
                 terminated, enq, is_translating, outcome, calls, sent,
                 keyHist>>

(***************************************************************************)
(* The hotkey listener: on_press, start_recording, on_release,              *)
(* stop_recording.  Each handler runs to completion on the listener thread. *)
(***************************************************************************)
\* nothing recorded, queued or in the worker's hands
Idle ==
  /\ ~is_recording
  /\ ~is_translating
  /\ translation_queue = <<>>
  /\ w.pc = "wait"

\* on_press, line 462: if not self.is_recording and not self.is_translating
CanStart == ~is_recording /\ ~is_translating

\* start_recording without the reset of is_recording in its except branch
StartRecordingNoReset(opens) ==
  IF is_recording
  THEN UNCHANGED <<listenerVars, threads>>
  ELSE IF opens
  THEN /\ nrec < scope.recs
       /\ is_recording' = TRUE
       /\ audio_data' = <<>>
       /\ stream' = [gen |-> nrec + 1, open |-> TRUE]
       /\ threads' = [threads EXCEPT ![nrec + 1] = [pc |-> "loop", held |-> 0]]
       /\ nrec' = nrec + 1
  ELSE /\ is_recording' = TRUE
       /\ audio_data' = <<>>
       /\ UNCHANGED <<stream, threads, nrec>>

\* start_recording.  opens: whether self.audio.open(...) returns a stream.
\* On success the buffer is replaced, the stream stored and a record_audio
\* thread started; on failure the except branch resets is_recording.
StartRecording(opens) ==
  IF is_recording
  THEN UNCHANGED <<listenerVars, threads>>
  ELSE IF opens
  THEN /\ nrec < scope.recs
       /\ is_recording' = TRUE
       /\ audio_data' = <<>>
       /\ stream' = [gen |-> nrec + 1, open |-> TRUE]
       /\ threads' = [threads EXCEPT ![nrec + 1] = [pc |-> "loop", held |-> 0]]
       /\ nrec' = nrec + 1
  ELSE /\ is_recording' = FALSE
       /\ audio_data' = <<>>
       /\ UNCHANGED <<stream, threads, nrec>>

\* the session stop_recording hands to the queue: a copy of the buffer
Session == [id |-> nrec, frames |-> audio_data]

\* stop_recording without the test "if self.audio_data:"
StopRecordingUnchecked(closes) ==
  IF ~is_recording
  THEN UNCHANGED <<is_recording, audio_data, stream, translation_queue, enq,
                   outcome>>
  ELSE /\ is_recording' = FALSE
       /\ IF closes
          THEN /\ stream' = [stream EXCEPT !.open = FALSE]
               /\ translation_queue' =
                    Append(translation_queue,
                           [id |-> nrec, frames |-> audio_data])
               /\ audio_data' = <<>>
               /\ enq' = Append(enq, nrec)
               /\ outcome' = [outcome EXCEPT ![nrec] = "queued"]
          ELSE UNCHANGED <<stream, translation_queue, audio_data, enq,
                           outcome>>

\* stop_recording that clears the buffer without handing it off
StopRecordingDropsSession(closes) ==
  IF ~is_recording
  THEN UNCHANGED <<is_recording, audio_data, stream, translation_queue, enq,
                   outcome>>
  ELSE /\ is_recording' = FALSE
       /\ IF closes
          THEN /\ stream' = [stream EXCEPT !.open = FALSE]
               /\ audio_data' = <<>>
               /\ UNCHANGED <<translation_queue, enq, outcome>>
          ELSE UNCHANGED <<stream, translation_queue, audio_data, enq,
                           outcome>>

\* stop_recording.  closes: whether stop_stream()/close() return; when one
\* raises, the except branch logs and nothing is put on the queue.
StopRecording(closes) ==
  IF ~is_recording
  THEN UNCHANGED <<is_recording, audio_data, stream, translation_queue, enq,
                   outcome>>
  ELSE /\ is_recording' = FALSE
       /\ IF closes
          THEN /\ stream' = [stream EXCEPT !.open = FALSE]
               /\ IF audio_data # <<>>
                  THEN /\ translation_queue' =
                            Append(translation_queue, Session)
                       /\ audio_data' = <<>>
                       /\ enq' = Append(enq, Session.id)
                       /\ outcome' = [outcome EXCEPT ![Session.id] = "queued"]
                  ELSE UNCHANGED <<translation_queue, audio_data, enq,
                                   outcome>>
          ELSE UNCHANGED <<stream, translation_queue, audio_data, enq,
                           outcome>>

Bump(n) == IF n < MaxStreak THEN n + 1 ELSE n

\* when the user may press the trigger in this run
MayPress == scope.overlap \/ (translation_queue = <<>> /\ w.pc = "wait")

\* on_press(key) for one key event
OnPressKey(key) ==
  /\ phase = "running"
  /\ IF IsHotkey(key)
     THEN /\ MayPress
          /\ hotkey_pressed' = TRUE
          /\ IF CanStart
             THEN \E opens \in DeviceAnswers : StartRecording(opens)
             ELSE UNCHANGED <<is_recording, audio_data, stream, nrec,
                              threads>>
          /\ streak' =
               IF ~hotkey_pressed /\ ~Idle THEN NoStreak
               ELSE IF hotkey_pressed /\ ~streak.idle0 THEN streak
               ELSE [presses |-> Bump(streak.presses),
                     starts |-> streak.starts + (nrec' - nrec),
                     failed |-> IF CanStart /\ nrec' = nrec
                                THEN Bump(streak.failed)
                                ELSE streak.failed,
                     idle0 |-> TRUE]
          /\ lastRel' = NoRelease
     ELSE UNCHANGED <<listenerVars, threads, keyHist>>
  /\ UNCHANGED <<scope, cfg, phase, translation_queue, terminated, enq, workerVars>>

\* on_press, called by the listener for every key pressed
OnPress == \E key \in Keys : OnPressKey(key)

\* on_release(key) for one key event
OnReleaseKey(key) ==
  /\ phase = "running"
  /\ IF IsHotkey(key)
     THEN /\ hotkey_pressed' = FALSE
          /\ IF is_recording
             THEN \E closes \in DeviceAnswers : StopRecording(closes)
             ELSE UNCHANGED <<is_recording, audio_data, stream,
                              translation_queue, enq, outcome>>
          /\ streak' = NoStreak
          /\ lastRel' =
               IF streak.presses >= 2 /\ streak.idle0
               THEN [repeated |-> TRUE,
                     recording |-> is_recording,
                     frames |-> audio_data # <<>>,
                     closed |-> is_recording /\ ~stream'.open,
                     puts |-> Len(translation_queue')
                              - Len(translation_queue)]
               ELSE NoRelease
     ELSE UNCHANGED <<is_recording, hotkey_pressed, audio_data, stream,
                      translation_queue, enq, outcome, keyHist>>
  /\ UNCHANGED <<scope, cfg, phase, threads, nrec, terminated, is_translating, w,
                 calls, sent>>

\* on_release, called by the listener for every key released
OnRelease == \E key \in Keys : OnReleaseKey(key)

(***************************************************************************)
(* record_audio, one thread per recording started.  The try block encloses  *)
(* the whole while loop, so a read that raises ends the thread.  self.stream*)
(* and self.audio_data are looked up when used: a thread reads from, and    *)
(* appends to, whatever the attributes hold at that moment.  A frame is     *)
(* represented by the number of the stream it was read from.                *)
(***************************************************************************)
Holding == Cardinality({t \in Recs : threads[t].pc = "append"})

\* while self.is_recording: data = self.stream.read(...)
CaptureRead(t) ==
  /\ threads[t].pc = "loop"
  /\ is_recording
  /\ \E reads \in DeviceAnswers :
       IF reads /\ stream.open
       THEN /\ Len(audio_data) + Holding < MaxFrames
            /\ threads' = [threads EXCEPT ![t] =
                             [pc |-> "append", held |-> stream.gen]]
       ELSE threads' = [threads EXCEPT ![t] = [pc |-> "dead", held |-> 0]]
  /\ UNCHANGED <<scope, cfg, phase, listenerVars, translation_queue, terminated,
                 enq, workerVars, keyHist>>

\* an append to a buffer that the session handed off last still shares
CaptureAppendShared(t) ==
  /\ threads[t].pc = "append"
  /\ audio_data' = Append(audio_data, threads[t].held)
  /\ threads' = [threads EXCEPT ![t] = [pc |-> "loop", held |-> 0]]
  /\ translation_queue' =
       IF translation_queue # <<>>
          /\ translation_queue[Len(translation_queue)].id # 0
       THEN [translation_queue EXCEPT ![Len(translation_queue)].frames =
               Append(@, threads[t].held)]
       ELSE translation_queue
  /\ UNCHANGED <<scope, cfg, phase, is_recording, hotkey_pressed, stream, nrec,
                 terminated, enq, workerVars, keyHist>>

\* self.audio_data.append(data)
CaptureAppend(t) ==
  /\ threads[t].pc = "append"
  /\ audio_data' = Append(audio_data, threads[t].held)
  /\ threads' = [threads EXCEPT ![t] = [pc |-> "loop", held |-> 0]]
  /\ UNCHANGED <<scope, cfg, phase, is_recording, hotkey_pressed, stream, nrec,
                 translation_queue, terminated, enq, workerVars, keyHist>>

\* the loop test fails: the thread ends
CaptureExit(t) ==
  /\ threads[t].pc = "loop"
  /\ ~is_recording
  /\ threads' = [threads EXCEPT ![t] = [pc |-> "dead", held |-> 0]]
  /\ UNCHANGED <<scope, cfg, phase, listenerVars, translation_queue, terminated,
                 enq, workerVars, keyHist>>

\* the threads are daemon threads: they run until the process ends
Capture ==
  /\ phase # "exited"
  /\ \E t \in Recs : CaptureRead(t) \/ CaptureAppend(t) \/ CaptureExit(t)

(***************************************************************************)
(* cleanup, run from main()'s finally block once run() has returned:        *)
(* PyAudio.terminate() closes every stream, and None is put on the queue.   *)
(***************************************************************************)
Cleanup ==
  /\ phase = "running"
  /\ phase' = "stopped"
  /\ terminated' = TRUE
  /\ stream' = [stream EXCEPT !.open = FALSE]
  /\ translation_queue' = Append(translation_queue, Sentinel)
  /\ UNCHANGED <<scope, cfg, is_recording, hotkey_pressed, audio_data, threads, nrec,
                 enq, workerVars, keyHist>>

\* main() returns after cleanup and the interpreter ends: the worker and the
\* capture threads are daemon threads and no thread is joined, so they stop
\* wherever they are
ProcessExit ==
  /\ phase = "stopped"
  /\ phase' = "exited"
  /\ UNCHANGED <<scope, cfg, listenerVars, threads, translation_queue,
                 terminated, enq, workerVars, keyHist>>

(***************************************************************************)
(* The pure parts of a job.                                                 *)
(***************************************************************************)
\* len(audio_np): b''.join(audio_data) holds CHUNK * CHANNELS int16 samples
\* per frame, and np.frombuffer(..., dtype=np.int16) yields one element each
Samples(frames) == Len(frames) * cfg.CHUNK * cfg.CHANNELS

\* transcribe_audio, line 279: len(audio_np) < self.RATE * 0.5
TooShort(frames) == 2 * Samples(frames) < cfg.RATE

\* transcribe_audio without .strip()
TranscriptTextUntrimmed(ans) == IF ans.ok THEN ans.content ELSE <<>>

\* transcribe_audio, lines 286-305: result.get('text', '').strip(); an
\* exception and an empty text both give None (the empty text here)
TranscriptText(ans) == IF ans.ok THEN Strip(ans.content) ELSE <<>>

\* semantic_correction that corrects every text that is not empty
SkipsCorrectionEmptyOnly(text) == text = <<>>

\* semantic_correction, line 310: texts too short to correct are returned
SkipsCorrection(text) == text = <<>> \/ Len(Strip(text)) < 2

\* semantic_correction that returns the service's text whatever it is
semantic_correction_unchecked(text, ans) ==
  IF ~ans.ok THEN text ELSE Strip(ans.content)

\* semantic_correction whose except branch returns nothing
semantic_correction_none(text, ans) ==
  IF ~ans.ok THEN <<>>
  ELSE LET corrected_text == Strip(ans.content)
       IN  IF corrected_text = <<>> \/ corrected_text = text THEN text
           ELSE corrected_text

\* semantic_correction, lines 336-349, given the service's answer
semantic_correction(text, ans) ==
  IF ~ans.ok THEN text
  ELSE LET corrected_text == Strip(ans.content)
       IN  IF corrected_text = <<>> \/ corrected_text = text THEN text
           ELSE corrected_text

\* translate_text whose except branch returns an error text
translate_text_error(ans) == IF ans.ok THEN Strip(ans.content) ELSE <<"!">>

\* translate_text, lines 372-378, given the service's answer
translate_text(ans) == IF ans.ok THEN Strip(ans.content) ELSE <<>>

\* translations[lang] = translated_text on a dict, which keeps the order in
\* which its keys were first inserted; the dict is a sequence of entries
DictSet(d, lang, text) ==
  IF \E n \in DOMAIN d : d[n].lang = lang
  THEN [n \in DOMAIN d |->
          IF d[n].lang = lang THEN [lang |-> lang, text |-> text] ELSE d[n]]
  ELSE Append(d, [lang |-> lang, text |-> text])

\* process_translation_queue, lines 397-399: only a non-empty translation
\* is stored
Store(d, lang, text) == IF text # <<>> THEN DictSet(d, lang, text) ELSE d

RECURSIVE NonEmptyTexts(_)
NonEmptyTexts(d) ==
  IF d = <<>> THEN <<>>
  ELSE (IF Head(d).text # <<>> THEN <<Head(d).text>> ELSE <<>>)
       \o NonEmptyTexts(Tail(d))

\* format_output over sorted(translations.items())
format_output_sorted(translations, original_text) ==
  Join(NonEmptyTexts(SelectSeq(translations, LAMBDA e : e.lang = "en")
                     \o SelectSeq(translations, LAMBDA e : e.lang # "en"))
       \o (IF original_text # <<>> THEN <<original_text>> ELSE <<>>))

\* format_output with the original text first
format_output_source_first(translations, original_text) ==
  Join((IF original_text # <<>> THEN <<original_text>> ELSE <<>>)
       \o NonEmptyTexts(translations))

\* format_output
format_output(translations, original_text) ==
  Join(NonEmptyTexts(translations)
       \o (IF original_text # <<>> THEN <<original_text>> ELSE <<>>))

\* a LIFO queue: the newest item
QueueGetNewest(q) ==
  [item |-> q[Len(q)], rest |-> SubSeq(q, 1, Len(q) - 1)]

\* queue.Queue.get(): the oldest item, and what stays on the queue
QueueGet(q) == [item |-> Head(q), rest |-> Tail(q)]

\* entries of the call log
Call(kind, lang, text) ==
  [kind |-> kind, lang |-> lang, text |-> text, state |-> "pending",
   content |-> <<>>]

\* the last call of the log has answered
Answered(log, ans) ==
  [log EXCEPT ![Len(log)].state = IF ans.ok THEN "returned" ELSE "raised",
              ![Len(log)].content = ans.content]

\* an OSC message with the third argument set
DatagramNoLoopSet(text) ==
  [address |-> "/chatbox/input", args |-> <<text, TRUE, TRUE>>,
   state |-> "pending"]

\* the OSC message of send_to_vrchat, line 443
Datagram(text) ==
  [address |-> "/chatbox/input", args |-> <<text, TRUE, FALSE>>,
   state |-> "pending"]

(***************************************************************************)
(* process_translation_queue.  w.pc is the worker's position:               *)
(*   wait    blocked in queue.get                                           *)
(*   got     get returned a session, is_translating not yet set             *)
(*   stt, refine, trans, send   inside the call of a service                *)
(*   correct  transcribed, about to call semantic_correction                *)
(*   done    the job has its outcome, is_translating not yet reset          *)
(*   exit    the loop was left                                              *)
(***************************************************************************)
\* a worker that leaves its loop when a job is discarded
DiscardAndLeave(log) ==
  /\ w' = [w EXCEPT !.pc = "exit"]
  /\ calls' = log
  /\ outcome' = [outcome EXCEPT ![w.job.id] = "discarded"]
  /\ UNCHANGED sent

\* the job ends without a message
Discard(log) ==
  /\ w' = [w EXCEPT !.pc = "done"]
  /\ calls' = log
  /\ outcome' = [outcome EXCEPT ![w.job.id] = "discarded"]
  /\ UNCHANGED sent

\* format_output and send_to_vrchat up to the call of the OSC client
Dispatch(text, translations, log) ==
  LET output_text == format_output(translations, text)
  IN  /\ calls' = log
      /\ IF output_text = <<>>
         THEN /\ w' = [w EXCEPT !.pc = "done", !.text = text,
                                !.translations = translations]
              /\ outcome' = [outcome EXCEPT ![w.job.id] = "discarded"]
              /\ UNCHANGED sent
         ELSE /\ w' = [w EXCEPT !.pc = "send", !.text = text,
                                !.translations = translations]
              /\ sent' = Append(sent, Datagram(output_text))
              /\ UNCHANGED outcome

\* a job that formats and sends before it translates
FanoutDispatchFirst(text, log) == Dispatch(text, <<>>, log)

\* a job that keeps the transcript as its source text and translates the
\* corrected text
FanoutRawSource(text, log) ==
  IF cfg.target_languages = <<>> \/ text = <<>>
  THEN Dispatch(w.text, <<>>, log)
  ELSE /\ w' = [w EXCEPT !.pc = "trans", !.i = 1, !.translations = <<>>]
       /\ calls' = Append(log, Call("translate", cfg.target_languages[1], text))
       /\ UNCHANGED <<outcome, sent>>

\* the loop over self.target_languages, entered with the text to translate;
\* translate_text returns "" at once for an empty text (line 354)
Fanout(text, log) ==
  IF cfg.target_languages = <<>> \/ text = <<>>
  THEN Dispatch(text, <<>>, log)
  ELSE /\ w' = [w EXCEPT !.pc = "trans", !.text = text, !.i = 1,
                         !.translations = <<>>]
       /\ calls' = Append(log, Call("translate", cfg.target_languages[1], text))
       /\ UNCHANGED <<outcome, sent>>

\* audio_data = self.translation_queue.get(timeout=1) returns an item
WorkerGet ==
  /\ w.pc = "wait"
  /\ translation_queue # <<>>
  /\ LET g == QueueGet(translation_queue)
     IN  /\ translation_queue' = g.rest
         /\ IF g.item = Sentinel
            THEN /\ w' = [w EXCEPT !.pc = "exit"]
                 /\ UNCHANGED outcome
            ELSE /\ w' = [Idling EXCEPT !.pc = "got", !.job = g.item]
                 /\ outcome' = [outcome EXCEPT ![g.item.id] = "taken"]
  /\ UNCHANGED <<scope, cfg, phase, listenerVars, threads, terminated, enq,
                 is_translating, calls, sent, keyHist>>

\* get times out on an empty queue: queue.Empty, continue
WorkerTimeout ==
  /\ w.pc = "wait"
  /\ translation_queue = <<>>
  /\ UNCHANGED vars

\* self.is_translating = True, then transcribe_audio up to the Whisper call
WorkerBegin ==
  /\ w.pc = "got"
  /\ is_translating' = TRUE
  /\ IF TooShort(w.job.frames)
     THEN Discard(calls)
     ELSE /\ w' = [w EXCEPT !.pc = "stt"]
          /\ calls' = Append(calls, Call("stt", "", <<>>))
          /\ UNCHANGED <<outcome, sent>>
  /\ UNCHANGED <<scope, cfg, phase, listenerVars, threads, translation_queue,
                 terminated, enq, keyHist>>

\* Whisper answers; a non-empty text goes on to semantic_correction
SttReturn ==
  /\ w.pc = "stt"
  /\ \E ans \in SttAnswers :
       LET original_text == TranscriptText(ans)
           log == Answered(calls, ans)
       IN  IF original_text = <<>>
           THEN Discard(log)
           ELSE /\ w' = [w EXCEPT !.pc = "correct", !.text = original_text]
                /\ calls' = log
                /\ UNCHANGED <<outcome, sent>>
  /\ UNCHANGED <<scope, cfg, phase, listenerVars, threads, translation_queue,
                 terminated, enq, is_translating, keyHist>>

\* semantic_correction(text) up to its request: a text too short to correct
\* is returned at once and the job goes on with it
RefineEnter ==
  /\ w.pc = "correct"
  /\ IF SkipsCorrection(w.text)
     THEN Fanout(w.text, calls)
     ELSE /\ w' = [w EXCEPT !.pc = "refine"]
          /\ calls' = Append(calls, Call("refine", "", w.text))
          /\ UNCHANGED <<outcome, sent>>
  /\ UNCHANGED <<scope, cfg, phase, listenerVars, threads, translation_queue,
                 terminated, enq, is_translating, keyHist>>

\* the correction request answers
RefineReturn ==
  /\ w.pc = "refine"
  /\ \E ans \in RefineAnswers :
       LET corrected_text == semantic_correction(w.text, ans)
       IN  Fanout(corrected_text, Answered(calls, ans))
  /\ UNCHANGED <<scope, cfg, phase, listenerVars, threads, translation_queue,
                 terminated, enq, is_translating, keyHist>>

\* a loop that asks once more for a language whose request failed
TranslateReturnRetry ==
  /\ w.pc = "trans"
  /\ LET lang == cfg.target_languages[w.i]
         asked == Len(SelectSeq(calls, LAMBDA c : c.kind = "translate"
                                                  /\ c.lang = lang))
     IN  \E ans \in TranslateAnswers(lang) :
           LET translated_text == translate_text(ans)
               translations == Store(w.translations, lang, translated_text)
               log == Answered(calls, ans)
           IN  IF translated_text = <<>> /\ asked < 2
               THEN /\ calls' = Append(log, Call("translate", lang, w.text))
                    /\ UNCHANGED <<w, outcome, sent>>
               ELSE IF w.i < Len(cfg.target_languages)
               THEN /\ w' = [w EXCEPT !.i = w.i + 1,
                                      !.translations = translations]
                    /\ calls' = Append(log,
                         Call("translate", cfg.target_languages[w.i + 1],
                              w.text))
                    /\ UNCHANGED <<outcome, sent>>
               ELSE Dispatch(w.text, translations, log)
  /\ UNCHANGED <<scope, cfg, phase, listenerVars, threads, translation_queue,
                 terminated, enq, is_translating, keyHist>>

\* the translation request for target_languages[w.i] answers
TranslateReturn ==
  /\ w.pc = "trans"
  /\ LET lang == cfg.target_languages[w.i]
     IN  \E ans \in TranslateAnswers(lang) :
           LET translated_text == translate_text(ans)
               translations == Store(w.translations, lang, translated_text)
               log == Answered(calls, ans)
           IN  IF w.i < Len(cfg.target_languages)
               THEN /\ w' = [w EXCEPT !.i = w.i + 1,
                                      !.translations = translations]
                    /\ calls' = Append(log,
                         Call("translate", cfg.target_languages[w.i + 1],
                              w.text))
                    /\ UNCHANGED <<outcome, sent>>
               ELSE Dispatch(w.text, translations, log)
  /\ UNCHANGED <<scope, cfg, phase, listenerVars, threads, translation_queue,
                 terminated, enq, is_translating, keyHist>>

\* a send_to_vrchat that sends once more when send_message raised
SendReturnRetry ==
  /\ w.pc = "send"
  /\ \E ok \in SendAnswers :
       IF ok \/ Len(sent) >= 2
       THEN /\ sent' = [sent EXCEPT ![Len(sent)].state =
                          IF ok THEN "returned" ELSE "raised"]
            /\ w' = [w EXCEPT !.pc = "done"]
            /\ outcome' = [outcome EXCEPT ![w.job.id] = "dispatched"]
       ELSE /\ sent' = Append([sent EXCEPT ![Len(sent)].state = "raised"],
                              Datagram(sent[Len(sent)].args[1]))
            /\ UNCHANGED <<w, outcome>>
  /\ UNCHANGED <<scope, cfg, phase, listenerVars, threads, translation_queue,
                 terminated, enq, is_translating, calls, keyHist>>

\* send_message returns or raises; either way send_to_vrchat returns
SendReturn ==
  /\ w.pc = "send"
  /\ \E ok \in SendAnswers :
       sent' = [sent EXCEPT ![Len(sent)].state =
                  IF ok THEN "returned" ELSE "raised"]
  /\ w' = [w EXCEPT !.pc = "done"]
  /\ outcome' = [outcome EXCEPT ![w.job.id] = "dispatched"]
  /\ UNCHANGED <<scope, cfg, phase, listenerVars, threads, translation_queue,
                 terminated, enq, is_translating, calls, keyHist>>

\* a worker that resets is_translating only inside "if original_text:"
WorkerFinishAfterSendOnly ==
  /\ w.pc = "done"
  /\ is_translating' = (sent = <<>>)
  /\ w' = Idling
  /\ calls' = <<>>
  /\ sent' = <<>>
  /\ UNCHANGED <<scope, cfg, phase, listenerVars, threads, translation_queue,
                 terminated, enq, outcome, keyHist>>

\* a worker that goes back to get without resetting is_translating
WorkerFinishFlagKept ==
  /\ w.pc = "done"
  /\ w' = Idling
  /\ calls' = <<>>
  /\ sent' = <<>>
  /\ UNCHANGED <<scope, cfg, phase, listenerVars, threads, translation_queue,
                 terminated, enq, outcome, keyHist, is_translating>>

\* self.is_translating = False; task_done(); back to get
WorkerFinish ==
  /\ w.pc = "done"
  /\ is_translating' = FALSE
  /\ w' = Idling
  /\ calls' = <<>>
  /\ sent' = <<>>
  /\ UNCHANGED <<scope, cfg, phase, listenerVars, threads, translation_queue,
                 terminated, enq, outcome, keyHist>>

Worker ==
  /\ phase # "exited"
  /\ \/ WorkerGet
     \/ WorkerTimeout
     \/ WorkerBegin
     \/ SttReturn
     \/ RefineEnter
     \/ RefineReturn
     \/ TranslateReturn
     \/ SendReturn
     \/ WorkerFinish

Next == OnPress \/ OnRelease \/ Capture \/ Cleanup \/ ProcessExit \/ Worker

Spec == Init /\ [][Next]_vars

SpecJob == InitJob /\ [][Next]_vars

SpecText == InitText /\ [][Next]_vars

\* the program from the call of VRChatTranslator() in main()
NextBoot == Construct \/ Next

SpecBoot == InitBoot /\ [][NextBoot]_vars

\* the worker thread and the main thread are scheduled, and every service
\* call returns or raises
SpecLive ==
  InitLive /\ [][Next]_vars /\ WF_vars(Worker) /\ WF_vars(ProcessExit)

(***************************************************************************)
(* Properties.                                                              *)
(***************************************************************************)
Terminal == {"discarded", "dispatched"}

\* the worker holds a session that has not reached its outcome
InFlight == w.pc \in {"got", "stt", "correct", "refine", "trans", "send"}

\* service calls (model requests and datagram sends) that have not answered
PendingCalls ==
  Cardinality({n \in DOMAIN calls : calls[n].state = "pending"})
  + Cardinality({n \in DOMAIN sent : sent[n].state = "pending"})

\* C1: sessions are processed in the order they were enqueued and one at a
\* time: a session the worker has taken (or finished) is preceded on the
\* queue only by sessions that have reached their outcome, at most one
\* session is in the worker's hands, and at most one service call is in
\* progress.
C1_FifoSerial ==
  /\ \A m, n \in DOMAIN enq :
       (m < n /\ outcome[enq[n]] # "queued") => outcome[enq[m]] \in Terminal
  /\ Cardinality({id \in Recs : outcome[id] = "taken"}) <= 1
  /\ \A id \in Recs : outcome[id] = "taken" => InFlight /\ w.job.id = id
  /\ PendingCalls <= 1

\* the second session enqueued is in translation, the first has its outcome
C1_Witness ==
  /\ Len(enq) >= 2
  /\ outcome[enq[1]] \in Terminal
  /\ outcome[enq[2]] = "taken"
  /\ w.pc = "trans"
  /\ PendingCalls = 1

\* C2: a trigger press while a job is in flight never starts a recording:
\* no step taken while the worker holds an unfinished session raises the
\* number of recordings started.
C2_NoStartInFlight == [][InFlight => nrec' = nrec]_vars

C4_EdgeTriggered == [][hotkey_pressed => nrec' = nrec]_vars

(***************************************************************************)
(* Properties of one job, read off the call log and the datagrams.          *)
(***************************************************************************)
\* a call that returned a text that is not blank
Succeeded(c) == c.state = "returned" /\ Strip(c.content) # <<>>

\* a call that raised or returned a blank text
Failed(c) == c.state = "raised" \/ (c.state = "returned" /\ Strip(c.content) = <<>>)

TranslateCalls == SelectSeq(calls, LAMBDA c : c.kind = "translate")

\* the speech-to-text call of the job has produced a text
Transcribed == calls # <<>> /\ calls[1].kind = "stt" /\ Succeeded(calls[1])

\* the fan-out of a transcribed job is over
Translated == Transcribed /\ w.pc \in {"send", "done"}

\* one translation request per configured language, in the list's order
AllRequested ==
  /\ Len(TranslateCalls) = Len(cfg.target_languages)
  /\ \A n \in DOMAIN TranslateCalls :
       TranslateCalls[n].lang = cfg.target_languages[n]

\* the text of the datagram the job handed to the OSC client
Message == sent[1].args[1]

\* message.split("\n")
RECURSIVE Lines(_)
Lines(s) ==
  IF \A k \in DOMAIN s : s[k] # "\n" THEN <<s>>
  ELSE LET k == CHOOSE j \in DOMAIN s :
                  s[j] = "\n" /\ \A h \in 1..(j - 1) : s[h] # "\n"
       IN  <<SubSeq(s, 1, k - 1)>> \o Lines(SubSeq(s, k + 1, Len(s)))

\* the duration of a session, frames * CHUNK / RATE seconds, is under 0.5 s
BelowMinimum(frames) == 2 * Len(frames) * cfg.CHUNK < cfg.RATE

\* C5: a dequeued session shorter than the minimum duration causes no
\* speech-to-text, refinement or translation call and no datagram, and ends
\* discarded.
C5_ShortDiscarded ==
  (w.pc \in {"stt", "correct", "refine", "trans", "send", "done"}
   /\ BelowMinimum(w.job.frames)) =>
    /\ calls = <<>>
    /\ sent = <<>>
    /\ w.pc = "done"
    /\ outcome[w.job.id] = "discarded"

\* C6: when the speech-to-text call raises or returns a text that is empty
\* after trimming, the job makes no refinement and no translation call,
\* sends no datagram and ends discarded.
C6_EmptyTranscriptStops ==
  (calls # <<>> /\ calls[1].kind = "stt" /\ Failed(calls[1])) =>
    /\ Len(calls) = 1
    /\ sent = <<>>
    /\ w.pc = "done"
    /\ outcome[w.job.id] = "discarded"

\* Whisper returned a text of blanks only, and the job was discarded
C6_Witness ==
  /\ calls # <<>>
  /\ calls[1].state = "returned"
  /\ calls[1].content = <<" ">>
  /\ w.pc = "done"

\* C7: when the translation request of some language fails, a request has
\* still been issued for every configured language, and the message has a
\* line for every translation that succeeded and for the source text, and
\* no further line.
C7_Isolation ==
  (Translated /\ \E n \in DOMAIN TranslateCalls : Failed(TranslateCalls[n])) =>
    /\ AllRequested
    /\ sent # <<>>
    /\ LET lines == Lines(Message)
           good == SelectSeq(TranslateCalls, Succeeded)
       IN  /\ \A n \in DOMAIN good :
                \E k \in DOMAIN lines : lines[k] = Strip(good[n].content)
           /\ \E k \in DOMAIN lines : lines[k] = w.text
           /\ Len(lines) = Len(good) + 1

\* of two languages the first request failed and the second succeeded
C7_Witness ==
  /\ Translated
  /\ Len(TranslateCalls) = 2
  /\ TranslateCalls[1].state = "raised"
  /\ Succeeded(TranslateCalls[2])
  /\ sent # <<>>
  /\ Len(Lines(Message)) = 2

\* the language a translation line is written in
LangOf(line) == CHOOSE l \in Langs : Strip(InLang(l)) = line

\* the place of a language in the configured list
Place(lang) ==
  CHOOSE n \in DOMAIN cfg.target_languages : cfg.target_languages[n] = lang

\* C8: in every message the translations stand in the order of the
\* configured target-language list and the source text is the last line,
\* whichever requests succeeded.
C8_ConfiguredOrder ==
  sent # <<>> =>
    LET lines == Lines(Message)
    IN  /\ lines[Len(lines)] = w.text
        /\ \A k \in 1..(Len(lines) - 1) :
             \E l \in Langs : Strip(InLang(l)) = lines[k]
        /\ \A p, q \in 1..(Len(lines) - 1) :
             p < q => Place(LangOf(lines[p])) < Place(LangOf(lines[q]))

\* the list is <<ja, en>> and the message reads J, E, source
C8_Witness ==
  /\ cfg.target_languages = <<"ja", "en">>
  /\ sent # <<>>
  /\ Lines(Message) = <<<<"J">>, <<"E">>, w.text>>

\* the correction request of the job raised
RefineRaised ==
  \E n \in DOMAIN calls : calls[n].kind = "refine" /\ calls[n].state = "raised"

\* C9: when the correction request raises, the job goes on to translation:
\* every translation request carries the trimmed transcription, one is
\* issued for every configured language, and a datagram is sent.
C9_RefineFailureContinues ==
  RefineRaised =>
    /\ w.pc \in {"trans", "send", "done"}
    /\ TranslateCalls # <<>>
    /\ \A n \in DOMAIN TranslateCalls :
         TranslateCalls[n].text = Strip(calls[1].content)
    /\ w.pc \in {"send", "done"} => AllRequested /\ sent # <<>>

\* after a correction request that raised, both languages were requested
\* and the message was handed to the OSC client
C9_Witness ==
  /\ RefineRaised
  /\ w.pc = "done"
  /\ Len(TranslateCalls) = 2
  /\ sent # <<>>
  /\ outcome[w.job.id] = "dispatched"

\* the answer to the request for a language, trimmed; empty when it failed
TranslationOf(lang) ==
  LET c == CHOOSE c \in {TranslateCalls[n] : n \in DOMAIN TranslateCalls} :
             c.lang = lang
  IN  IF c.state = "returned" THEN Strip(c.content) ELSE <<>>

\* the non-empty translations of the first n configured languages
RECURSIVE ExpectedLines(_)
ExpectedLines(n) ==
  IF n = 0 THEN <<>>
  ELSE LET t == TranslationOf(cfg.target_languages[n])
       IN  ExpectedLines(n - 1) \o (IF t # <<>> THEN <<t>> ELSE <<>>)

\* C10: a job with a non-empty transcription hands exactly one message to
\* the OSC client: the non-empty translations in configured order, then the
\* source text, joined by newlines; with no translation it is the source
\* text alone.
C10_MessageFormat ==
  Translated =>
    /\ AllRequested
    /\ Len(sent) = 1
    /\ w.text # <<>>
    /\ Message =
         Join(ExpectedLines(Len(cfg.target_languages)) \o <<w.text>>)
    /\ w.pc = "done" => outcome[w.job.id] = "dispatched"

\* every translation failed and the message is the source text alone
C10_Witness ==
  /\ Translated
  /\ Len(TranslateCalls) = 2
  /\ \A n \in DOMAIN TranslateCalls : Failed(TranslateCalls[n])
  /\ Len(sent) = 1
  /\ Message = w.text

(***************************************************************************)
(* The queue, the loops and shutdown.                                       *)
(***************************************************************************)
\* the sessions waiting on the queue
Waiting == SelectSeq(translation_queue, LAMBDA s : s # Sentinel)

\* C11: at most one session waits on the queue, whatever the interleaving
\* of trigger presses, releases and worker steps.
C11_DepthAtMostOne == Len(Waiting) <= 1

\* C12: a read that raises while a recording is active and its stream is
\* open does not end the capture loop: no record_audio thread that is in its
\* loop ends while is_recording is set and the stream is open.
C12_ReadErrorTolerated ==
  [][\A t \in Recs :
       (threads[t].pc = "loop" /\ is_recording /\ stream.open
        /\ phase = "running") => threads'[t].pc # "dead"]_vars

\* C13: the worker leaves its loop only by taking the sentinel from the
\* queue: not on a discarded session, a failed call or an empty queue.
C13_ExitOnlyOnSentinel ==
  [][(w'.pc = "exit" /\ w.pc # "exit") =>
       /\ w.pc = "wait"
       /\ translation_queue # <<>>
       /\ Head(translation_queue) = Sentinel
       /\ phase # "running"]_vars

\* the worker went on after a discarded session and left on the sentinel
C13_Witness ==
  /\ w.pc = "exit"
  /\ \E id \in Recs : outcome[id] = "discarded"

\* every session put on the queue has its outcome
Drained == \A n \in DOMAIN enq : outcome[enq[n]] \in Terminal

\* C14: once cleanup has put the sentinel on the queue, the worker
\* eventually stops (it leaves its loop, or at the latest the process ends),
\* having brought every session enqueued before the sentinel to its outcome.
C14_DrainThenExit ==
  (phase = "stopped") ~> ((w.pc = "exit" \/ phase = "exited") /\ Drained)

\* C15: once cleanup has run, the audio device is terminated, the input
\* stream is closed and no recording is active.
C15_ReleasedAfterCleanup ==
  phase # "running" => terminated /\ ~stream.open /\ ~is_recording

\* C16: every datagram goes to /chatbox/input with the arguments
\* [message, True, False] and a message that is not empty, and an empty
\* message is not sent.
C16_DatagramForm ==
  /\ \A n \in DOMAIN sent :
       /\ sent[n].address = "/chatbox/input"
       /\ Len(sent[n].args) = 3
       /\ sent[n].args[1] # <<>>
       /\ sent[n].args[2] = TRUE
       /\ sent[n].args[3] = FALSE
  /\ (w.pc \in {"send", "done"} /\ w.text = <<>> /\ w.translations = <<>>) =>
       sent = <<>>

\* the empty text went through format_output and send_to_vrchat, and no
\* datagram was made
C16_Witness ==
  /\ calls # <<>>
  /\ calls[1].kind = "input"
  /\ calls[1].text = <<>>
  /\ w.pc = "done"
  /\ sent = <<>>

\* C17: a job hands at most one datagram to the OSC client; when the send
\* raises there is no second attempt and the job has its outcome.
C17_SendOnce ==
  /\ Len(sent) <= 1
  /\ (sent # <<>> /\ sent[1].state = "raised") =>
       /\ w.pc = "done"
       /\ outcome[w.job.id] \in Terminal

\* the send raised and the job is over
C17_Witness ==
  /\ Len(sent) = 1
  /\ sent[1].state = "raised"
  /\ w.pc = "done"
  /\ is_translating

\* C18: while the program runs, a job that is over (discarded, or
\* dispatched whether or not the send raised) is followed by is_translating
\* being reset; a trigger press with no recording active and is_translating
\* reset can start a recording; and every session put on the queue gets
\* its outcome.
C18_KeepsAccepting ==
  /\ (w.pc = "done") ~> (~is_translating \/ phase = "exited")
  /\ []((phase = "running" /\ ~is_recording /\ ~is_translating /\ MayPress
         /\ nrec < scope.recs) =>
          ENABLED (OnPress /\ nrec' = nrec + 1 /\ is_recording'))
  /\ \A id \in Recs :
       (outcome[id] = "queued") ~>
         (outcome[id] \in Terminal \/ phase = "exited")

\* the first session was discarded and the second one dispatched
C18_Witness ==
  /\ Len(enq) = 2
  /\ outcome[enq[1]] = "discarded"
  /\ outcome[enq[2]] = "dispatched"
  /\ ~is_translating

(***************************************************************************)
(* semantic_correction on arbitrary texts.                                  *)
(***************************************************************************)
\* the job started from a given text, and semantic_correction has returned
Corrected ==
  /\ calls # <<>>
  /\ calls[1].kind = "input"
  /\ w.pc \in {"trans", "send", "done"}

\* C19: for a text of fewer than 2 characters semantic_correction issues
\* no request and returns the text; the job translates that text and, when
\* it is not empty, sends a message that ends with it.
C19_ShortTextSkipsRefine ==
  (Corrected /\ Len(calls[1].text) < 2) =>
    /\ \A n \in DOMAIN calls : calls[n].kind # "refine"
    /\ w.text = calls[1].text
    /\ \A n \in DOMAIN TranslateCalls :
         TranslateCalls[n].text = calls[1].text
    /\ (calls[1].text # <<>> /\ w.pc \in {"send", "done"}) =>
         /\ AllRequested
         /\ sent # <<>>
         /\ Lines(Message)[Len(Lines(Message))] = calls[1].text

\* a text of one character was translated and sent without a correction
\* request
C19_Witness ==
  /\ Corrected
  /\ calls[1].text = <<"a">>
  /\ w.pc = "done"
  /\ sent # <<>>

\* the correction request of the job, once it has answered
RefineCalls ==
  SelectSeq(calls, LAMBDA c : c.kind = "refine" /\ c.state # "pending")

\* C20: semantic_correction returns the service's text when that text is
\* not empty and differs from the input, and the input otherwise; it never
\* returns an empty text for an input that is not empty.
C20_RefineResult ==
  /\ RefineCalls # <<>> =>
       LET c == RefineCalls[1]
           answer == Strip(c.content)
       IN  w.text = IF c.state = "returned" /\ answer # <<>>
                       /\ answer # c.text
                    THEN answer ELSE c.text
  /\ (Corrected /\ calls[1].text # <<>>) => w.text # <<>>

\* the service returned a blank text and the input was kept
C20_Witness ==
  /\ Corrected
  /\ RefineCalls # <<>>
  /\ RefineCalls[1].state = "returned"
  /\ Strip(RefineCalls[1].content) = <<>>
  /\ w.text = calls[1].text
  /\ w.pc = "done"

(***************************************************************************)
(* The order of the steps of a job.                                         *)
(***************************************************************************)
\* C21: a job issues the translation requests in the order of the
\* configured list, one per language, the next one only after the one
\* before has answered, none for a language a second time, and all of them
\* before the message is made.
C21_OnePerLanguage ==
  /\ Len(TranslateCalls) <= Len(cfg.target_languages)
  /\ \A n \in DOMAIN TranslateCalls :
       /\ TranslateCalls[n].lang = cfg.target_languages[n]
       /\ n < Len(TranslateCalls) => TranslateCalls[n].state # "pending"
       /\ \A m \in DOMAIN TranslateCalls :
            m # n => TranslateCalls[m].lang # TranslateCalls[n].lang
  /\ (Transcribed /\ w.pc \in {"send", "done"}) => AllRequested

\* the request for the first language failed and the request for the
\* second one is in progress
C21_Witness ==
  /\ w.pc = "trans"
  /\ Len(TranslateCalls) = 2
  /\ Failed(TranslateCalls[1])
  /\ TranslateCalls[2].state = "pending"

\* C22: the calls of a job come in the order transcription, correction,
\* translations, send: a correction request follows a transcription that
\* returned, a translation request is made only when every earlier call
\* has answered, and the datagram is made only when every translation
\* request has been issued and has answered.
C22_StepOrder ==
  /\ \A n \in DOMAIN calls :
       /\ calls[n].kind = "stt" => n = 1
       /\ calls[n].kind = "refine" => n = 2 /\ Succeeded(calls[1])
       /\ calls[n].kind = "translate" =>
            /\ Succeeded(calls[1])
            /\ \A m \in 1..(n - 1) : calls[m].state # "pending"
  /\ sent # <<>> =>
       /\ AllRequested
       /\ \A n \in DOMAIN calls : calls[n].state # "pending"

\* transcription, correction, two translations and the send, in this order
C22_Witness ==
  /\ Len(calls) = 4
  /\ calls[2].kind = "refine"
  /\ calls[2].state = "returned"
  /\ calls[4].kind = "translate"
  /\ Len(sent) = 1
  /\ w.pc = "done"

\* C23: every session the worker has taken reaches an outcome, message sent
\* or discarded.
C23_ReachesOutcome ==
  \A id \in Recs : (outcome[id] = "taken") ~> (outcome[id] \in Terminal)

\* the part of C23 that is about the queue and the listener: an outcome
\* once reached stays, a session taken stays in the worker's hands,
\* unchanged, until its outcome, whatever the listener does meanwhile, no
\* session taken is on the queue again, and the worker can always take its
\* next step while the process lives.
C23_NeverRequeued ==
  /\ [][\A id \in Recs :
          /\ outcome[id] \in Terminal => outcome'[id] = outcome[id]
          /\ outcome[id] = "taken" =>
               /\ outcome'[id] \in {"taken"} \cup Terminal
               /\ w'.job = w.job]_vars
  /\ [](\A n \in DOMAIN translation_queue :
          translation_queue[n] # Sentinel =>
            outcome[translation_queue[n].id] = "queued")
  /\ []((InFlight /\ phase # "exited") => ENABLED (Worker /\ w' # w))

\* C24: a session does not change after its hand-off: the session put on
\* the queue is the capture buffer of that moment, and it keeps its frames
\* on the queue and in the worker's hands.
C24_FrozenAtHandoff ==
  [][/\ \A n \in DOMAIN translation_queue :
          /\ \A m \in DOMAIN translation_queue' :
               translation_queue'[m].id = translation_queue[n].id =>
                 translation_queue'[m].frames = translation_queue[n].frames
          /\ (w'.job.id = translation_queue[n].id /\ w'.job.id # 0) =>
               w'.job.frames = translation_queue[n].frames
     /\ (w.job.id # 0 /\ w'.job.id = w.job.id) =>
          w'.job.frames = w.job.frames
     /\ Len(enq') > Len(enq) =>
          translation_queue'[Len(translation_queue')] =
            [id |-> nrec, frames |-> audio_data]]_vars

\* a session waits on the queue while a later recording appends frames
C24_Witness ==
  /\ translation_queue # <<>>
  /\ translation_queue[1].id = 1
  /\ nrec = 2
  /\ is_recording
  /\ audio_data # <<>>

TriggerKeys ==
  {[hasChar |-> TRUE, char |-> "k"], [hasChar |-> TRUE, char |-> "K"]}

\* C26: a press or release of a key other than the trigger is handled and
\* changes nothing; a press of the trigger in either case starts a
\* recording when the program is idle, and a release of it in either case
\* ends an active recording.
C26_OnlyTrigger ==
  phase = "running" =>
    /\ \A key \in Keys \ TriggerKeys :
         /\ ENABLED OnPressKey(key)
         /\ ~ENABLED (OnPressKey(key) /\ vars' # vars)
         /\ ENABLED OnReleaseKey(key)
         /\ ~ENABLED (OnReleaseKey(key) /\ vars' # vars)
    /\ \A key \in TriggerKeys :
         /\ (Idle /\ nrec < scope.recs) =>
              ENABLED (OnPressKey(key) /\ is_recording' /\ nrec' = nrec + 1)
         /\ is_recording =>
              ENABLED (OnReleaseKey(key) /\ ~is_recording')

\* during a recording with a frame captured, the release of a special key
\* changes nothing and the release of the upper-case trigger ends it
C26_Witness ==
  /\ phase = "running"
  /\ is_recording
  /\ audio_data # <<>>
  /\ ~ENABLED (OnReleaseKey([hasChar |-> FALSE, char |-> ""]) /\ vars' # vars)
  /\ ENABLED (OnReleaseKey([hasChar |-> TRUE, char |-> "K"])
              /\ translation_queue' # translation_queue)

\* C27: when no input device can be selected, the API key is missing or the
\* Whisper model does not load, the program never has a worker or a
\* listener: nothing is recorded, enqueued, requested or sent, and after
\* the failed construction nothing happens at all.
C27_StartupFatal ==
  (~scope.env.device \/ ~scope.env.key \/ ~scope.env.model) =>
    /\ phase \in {"init", "aborted"}
    /\ w.pc = "unborn"
    /\ \A t \in Recs : threads[t].pc = "unborn"
    /\ nrec = 0
    /\ ~is_recording
    /\ enq = <<>>
    /\ calls = <<>>
    /\ sent = <<>>
    /\ phase = "aborted" => ~ENABLED (NextBoot /\ vars' # vars)

\* construction has failed for the missing API key alone
C27_Witness ==
  /\ phase = "aborted"
  /\ scope.env.device
  /\ scope.env.model
  /\ ~scope.env.key
  /\ scope.env.osc

(***************************************************************************)
(* The length test, the capture threads and the flag.                       *)
(***************************************************************************)
\* C28: a session is transcribed exactly when its duration, bytes / (2 *
\* CHANNELS * RATE) = frames * CHUNK / RATE seconds, is at least 0.5 s.
C28_DurationTest ==
  (w.pc \in {"stt", "correct", "refine", "trans", "send", "done"}) =>
    (calls = <<>> <=> BelowMinimum(w.job.frames))

\* C29: a record_audio thread reads and appends frames only during the
\* recording it was started for.
C29_OwnRecordingOnly ==
  [][\A t \in Recs :
       (\/ threads[t].pc = "loop" /\ threads'[t].pc = "append"
        \/ threads[t].pc = "append" /\ threads'[t].pc = "loop") =>
         t = nrec]_vars

\* C30: is_translating is set only while the worker holds a session it has
\* taken from the queue, and it is reset whenever the worker waits on the
\* queue or has left its loop.
C30_FlagTracksWorker ==
  /\ is_translating =>
       /\ w.pc \in {"stt", "correct", "refine", "trans", "send", "done"}
       /\ w.job.id # 0
       /\ outcome[w.job.id] \in {"taken"} \cup Terminal
  /\ w.pc \in {"wait", "exit"} => ~is_translating

\* the worker waits again, the flag reset, after a session was discarded
C30_Witness ==
  /\ w.pc = "wait"
  /\ ~is_translating
  /\ \E id \in Recs : outcome[id] = "discarded"

(***************************************************************************)
(* A failed open, and the text of a message.                                *)
(***************************************************************************)
\* the trigger presses since the last release began from idle, and on each
\* that tried, audio.open raised
OpenFailed == streak.idle0 /\ streak.starts = 0 /\ streak.failed >= 1

\* C31: a trigger press on which audio.open raises leaves the program not
\* recording, with no capture thread started, the stream and the queue as
\* they were; the release that follows enqueues nothing and leaves the
\* program ready; and a trigger press after the failure can start a
\* recording.
C31_OpenFailureRecovers ==
  /\ [][((\E key \in TriggerKeys : OnPressKey(key)) /\ CanStart
          /\ nrec' = nrec) =>
          /\ ~is_recording'
          /\ threads' = threads
          /\ stream' = stream
          /\ translation_queue' = translation_queue
          /\ OpenFailed']_vars
  /\ [][(OpenFailed /\ hotkey_pressed /\ ~hotkey_pressed') =>
          /\ translation_queue' = translation_queue
          /\ enq' = enq
          /\ threads' = threads
          /\ CanStart']_vars
  /\ []((OpenFailed /\ phase = "running" /\ nrec < scope.recs) =>
          /\ ~is_recording
          /\ \A key \in TriggerKeys :
               ENABLED (OnPressKey(key) /\ is_recording'
                        /\ threads'[nrec + 1].pc = "loop"))

\* the trigger is held after a press on which audio.open raised
C31_Witness ==
  /\ OpenFailed
  /\ phase = "running"
  /\ hotkey_pressed
  /\ ~is_recording
  /\ nrec = 0
  /\ \A t \in Recs : threads[t].pc = "unborn"

\* the correction requests of the job
RefineRequests == SelectSeq(calls, LAMBDA c : c.kind = "refine")

\* what transcribe_audio returns for the job, read from its calls: the
\* trimmed transcript when no correction was requested, else the service's
\* trimmed text when it is not empty and differs from the transcript, else
\* the transcript
RefinerOutput ==
  IF RefineRequests = <<>> THEN Strip(calls[1].content)
  ELSE LET c == RefineRequests[1]
           answer == Strip(c.content)
       IN  IF c.state = "returned" /\ answer # <<>> /\ answer # c.text
           THEN answer ELSE c.text

\* C32: in a job with a transcription, the correction request carries the
\* trimmed transcript, every translation request carries the text that
\* semantic_correction returned, and the last line of the message is that
\* same text; the message is made while the worker holds the session the
\* calls were made for.
C32_OneSourceText ==
  Transcribed =>
    /\ \A n \in DOMAIN RefineRequests :
         RefineRequests[n].text = Strip(calls[1].content)
    /\ \A n \in DOMAIN TranslateCalls :
         /\ TranslateCalls[n].text = RefinerOutput
         /\ RefineRequests # <<>> => RefineRequests[1].state # "pending"
    /\ sent # <<>> =>
         /\ Len(sent) = 1
         /\ Lines(Message)[Len(Lines(Message))] = RefinerOutput
         /\ AllRequested
         /\ w.job.id # 0
         /\ outcome[w.job.id] \in {"taken"} \cup Terminal

\* the correction changed the transcript; both languages were asked with
\* the corrected text and the message of two or more lines ends with it
C32_Witness ==
  /\ Transcribed
  /\ RefineRequests # <<>>
  /\ RefinerOutput # RefineRequests[1].text
  /\ Len(TranslateCalls) = 2
  /\ sent # <<>>
  /\ Len(Lines(Message)) >= 2
  /\ w.pc = "done"

=============================================================================
